---- MODULE Spec2Model ----
(***************************************************************************)
(* Solar savings simulator (SolarSimulator component).                     *)
(*                                                                         *)
(* Numbers of the program are JavaScript doubles.  The model keeps them    *)
(* as exact fixed-point integers:                                          *)
(*   energy  (kWh)      : Unit per kWh                                     *)
(*   money   (RM)       : Unit per RM                                      *)
(*   tariff energy      : tenths of a kWh  (calculateKwhToBill)            *)
(*   tariff money       : 1/10000 RM       (calculateKwhToBill)            *)
(*   simProgress        : thirds of a percent                              *)
(*   tankLevel          : 1/TankUnit of a percent                          *)
(* With dayUsagePercent and panelWattage multiples of 5 (the slider step   *)
(* and the two panel types) every division below is exact.                 *)
(***************************************************************************)
EXTENDS Integers, Sequences, FiniteSets, TLC

VARIABLES
    step,             \* wizard step, useState(0)
    audit,            \* [phone, monthlyKwh, futureEV, futurePool, futurePond]
    monthlyKwhInput,  \* text of the usage input: <<>> is '', <<n>> the number n
    dayUsagePercent,
    panelWattage,
    panelCount,
    panelCountInput,  \* text of the panel quantity input
    hasBattery,
    batteryUnits,
    simProgress,
    simStats,
    finalReport,      \* NULL or Some(report)
    runs,             \* one record per runSimulation call: its closure and timer
    timeouts,         \* number of pending setTimeout(() => setStep(5)) callbacks
    formula,          \* NULL or Some(the DailyFormulaResult last computed)
    tariffCalls,      \* the last two calculateKwhToBill calls
    tiered,           \* state of the older tiered variant, NULL while unused
    inverse,          \* the last tariff round trip of the tiered variant
    edits,            \* number of configuration inputs made so far
    focus             \* the number input that has the focus, or "none"

vars == <<step, audit, monthlyKwhInput, dayUsagePercent, panelWattage,
          panelCount, panelCountInput, hasBattery, batteryUnits, simProgress,
          simStats, finalReport, runs, timeouts, formula, tariffCalls, edits,
          focus, tiered, inverse>>

\* null is the empty sequence, an object r the one-element sequence <<r>>
NULL == <<>>

Some(r) == <<r>>

\* stands for the unbounded width of the last tier; beyond every input
Infinity == 100000000

\* Fixed-point unit of energy and of money: 1 kWh (1 RM) = Unit.
Unit == 8 * 3000

\* tankLevel is kept in 1/TankUnit percent (60 = lcm of the unit counts 1..6).
TankUnit == 60 * (Unit \div 10)

Max(a, b) == IF a >= b THEN a ELSE b

Min(a, b) == IF a <= b THEN a ELSE b

(***************************************************************************)
(* Program constants                                                       *)
(***************************************************************************)
\* rate in 1/1000 RM per kWh, limit in kWh
TARIFF_TIERS ==
    << [limit |-> 200,      rate |-> 218],
       [limit |-> 100,      rate |-> 334],
       [limit |-> 300,      rate |-> 516],
       [limit |-> 300,      rate |-> 546],
       [limit |-> Infinity, rate |-> 571] >>

NEM_EXPORT_RATE == 24        \* 0.24, in hundredths

AVG_GRID_RATE == 45          \* 0.45, in hundredths

SOLAR_YIELD_PER_KW == 35     \* 3.5, in tenths

TNB_RATE_PER_KWH == 5        \* 0.5, in tenths

EXPORT_RATE_FACTOR == 7      \* 0.7, in tenths

BATTERY_EXPORT_FACTOR == 3   \* 0.3, in tenths

BATTERY_UNIT_KWH == 10

totalDays == 30

(***************************************************************************)
(* Tariff engine: calculateKwhToBill.  kwh in tenths of a kWh, the bill in *)
(* 1/10000 RM.                                                             *)
(***************************************************************************)
\* mutant: the tier's width is ignored
AmountInTierNoLimit(remaining, limit) == remaining

\* Math.min(remaining, tier.limit), the limit in kWh
AmountInTier(remaining, limit) ==
    IF limit = Infinity THEN remaining ELSE Min(remaining, limit * 10)

\* mutant: totalBill = ... instead of totalBill += ...
AddToBillAssign(totalBill, amountInTier, rate) == amountInTier * rate

\* totalBill += amountInTier * tier.rate
AddToBill(totalBill, amountInTier, rate) == totalBill + amountInTier * rate

RECURSIVE TierLoop(_, _, _)
\* the for-loop from tier i on; returns the loop's final locals
TierLoop(i, remaining, totalBill) ==
    IF i > Len(TARIFF_TIERS)
    THEN [totalBill |-> totalBill, remaining |-> remaining]
    ELSE LET tier == TARIFF_TIERS[i]
             amountInTier == AmountInTier(remaining, tier.limit)
             bill1 == IF amountInTier > 0
                      THEN AddToBill(totalBill, amountInTier, tier.rate)
                      ELSE totalBill
             rem1  == IF amountInTier > 0
                      THEN remaining - amountInTier
                      ELSE remaining
         IN IF rem1 <= 0
            THEN [totalBill |-> bill1, remaining |-> rem1]
            ELSE TierLoop(i + 1, rem1, bill1)

calculateKwhToBill(kwh) == TierLoop(1, kwh, 0).totalBill

(***************************************************************************)
(* Derived values of one render                                            *)
(***************************************************************************)
\* Math.round of the non-negative quotient n / d
Round(n, d) == (2 * n + d) \div (2 * d)

\* The double `multiplier` lies below the decimal it stands for by this many
\* tenths of 2^-52 (1.15 is stored as 1.15 - 0.4 x 2^-52, 1 + 0.2 + 0.15 as
\* 1.35 - 0.6 x 2^-52, 1.3 as 1.3 + 0.2 x 2^-52); pct is the decimal in
\* hundredths.
MultiplierDeficit(pct) ==
    CASE pct = 115 -> 4
      [] pct = 120 -> 2
      [] pct = 130 -> -2
      [] pct = 135 -> 6
      [] pct = 145 -> 2
      [] pct = 165 -> 4
      [] OTHER     -> 0

\* the power of two with p <= x < 2p
Pow2Below(x) == CHOOSE p \in {2 ^ i : i \in 0..20} : p <= x /\ x < 2 * p

\* Math.round(base * multiplier) as the doubles give it: off a half the
\* nearest integer; at an exact half the double product is the half itself
\* (rounded up) unless the multiplier's deficit pushes it a whole ulp below.
MathRoundProduct(base, pct) ==
    LET n == base * pct
        whole == n \div 100
    IN IF /\ n % 100 = 50
          /\ whole >= 1
          /\ base * MultiplierDeficit(pct) > 5 * Pow2Below(whole)
       THEN whole
       ELSE Round(n, 100)

\* mutant: the surcharges are compounded (1.3 x 1.2 x 1.15), in 1/10000
adjustedMonthlyKwhCompounded(a) ==
    LET m1 == IF a.futureEV   THEN 130 ELSE 100
        m2 == IF a.futurePool THEN 120 ELSE 100
        m3 == IF a.futurePond THEN 115 ELSE 100
    IN Round(a.monthlyKwh * ((m1 * m2 * m3) \div 100), 10000)

\* multiplier in hundredths
adjustedMonthlyKwh(a) ==
    LET m0 == 100
        m1 == IF a.futureEV   THEN m0 + 30 ELSE m0
        m2 == IF a.futurePool THEN m1 + 20 ELSE m1
        multiplier == IF a.futurePond THEN m2 + 15 ELSE m2
    IN MathRoundProduct(a.monthlyKwh, multiplier)

currentKwhUsage(a) == adjustedMonthlyKwh(a)

\* in Unit
batteryCapacity(units) == units * BATTERY_UNIT_KWH * Unit

\* The values a render's closures (computeFormula, runSimulation) read.
Closure(a, dup, pw, pc, hb, bu) ==
    [ currentKwhUsage |-> currentKwhUsage(a),
      dayUsagePercent |-> dup,
      panelWattage    |-> pw,
      panelCount      |-> pc,
      hasBattery      |-> hb,
      batteryUnits    |-> bu ]

(***************************************************************************)
(* Energy allocation engine: computeFormula, over the closure c.           *)
(* Energies and costs in Unit; D, H, I plain numbers; E in Unit per kW.    *)
(***************************************************************************)
\* x * K
TimesK(x) == (x * TNB_RATE_PER_KWH) \div 10

\* mutant: the cost is reported as kWh without the division by K
OverKForgotten(x) == x

\* x / K
OverK(x) == (x * 10) \div TNB_RATE_PER_KWH

\* mutant: Case A is taken only when there is some solar generation
CaseAOnlyWithSolar(B1, G) == G > 0 /\ B1 > G

\* if (B1 > G)
CaseA(B1, G) == B1 > G

\* mutant: the solar generation is added to the daytime load
CaseATnbKwhSolarAdded(B1, G, C1) == (B1 + G) + C1

\* mutant: the night load is not billed in Case A
CaseATnbKwhNoNight(B1, G, C1) == B1 - G

\* Case A (B1 > G): the daytime shortfall and the whole night load
CaseATnbKwh(B1, G, C1) == (B1 - G) + C1

\* mutant: the export credit is added to the cost
NoBatteryCostCreditAdded(C1, excess) ==
    LET credit == (TimesK(excess) * EXPORT_RATE_FACTOR) \div 10
    IN Max(0, TimesK(C1) + credit)

\* mutant: the clamp is applied before the credit is subtracted
NoBatteryCostClampFirst(C1, excess) ==
    LET credit == (TimesK(excess) * EXPORT_RATE_FACTOR) \div 10
    IN Max(0, TimesK(C1)) - credit

\* Case B, H === 0: cost of the night load less the export credit
NoBatteryCost(C1, excess) ==
    LET credit == (TimesK(excess) * EXPORT_RATE_FACTOR) \div 10
    IN Max(0, TimesK(C1) - credit)

\* mutant: the battery stores the whole excess, whatever its capacity
BatteryStoredNoCap(excess, J) == excess

\* Case B, H > 0: stored energy, export beyond the battery and cost
BatteryStored(excess, J) == Min(excess, J)

\* mutant: the whole excess is exported, the stored part included
BatteryExportWhole(excess, J) == excess

BatteryExport(excess, J) ==
    LET remainingExcess == Max(0, excess - J)
    IN IF remainingExcess > 0 THEN remainingExcess ELSE 0

\* mutant: the stored energy is not set against the night load
BatteryCostNoOffset(C1, stored, export) ==
    Max(0, TimesK(C1) - (TimesK(export) * BATTERY_EXPORT_FACTOR) \div 10)

\* mutant: export beyond the battery credited at the no-battery factor
BatteryCostExportFactor(C1, stored, export) ==
    Max(0, TimesK(Max(0, C1 - stored))
           - (TimesK(export) * EXPORT_RATE_FACTOR) \div 10)

BatteryCost(C1, stored, export) ==
    Max(0, TimesK(Max(0, C1 - stored))
           - (TimesK(export) * BATTERY_EXPORT_FACTOR) \div 10)

computeFormula(c) ==
    LET A  == c.currentKwhUsage * Unit
        B  == c.dayUsagePercent * (A \div 100)
        C  == A - B
        B1 == B \div 30
        C1 == C \div 30
        D  == c.panelCount
        E  == (c.panelWattage * Unit) \div 1000
        F  == SOLAR_YIELD_PER_KW
        G  == (D * E * F) \div 10
        H  == IF c.hasBattery THEN c.batteryUnits ELSE 0
        I  == BATTERY_UNIT_KWH
        J  == H * I * Unit
        K  == TNB_RATE_PER_KWH
        excess == G - B1
        dailyStoredKwh ==
            IF CaseA(B1, G) \/ H = 0 THEN 0 ELSE BatteryStored(excess, J)
        dailyExportKwh ==
            IF CaseA(B1, G) THEN 0
            ELSE IF H = 0 THEN excess
            ELSE BatteryExport(excess, J)
        dailyTnbKwh ==
            IF CaseA(B1, G) THEN CaseATnbKwh(B1, G, C1)
            ELSE IF H = 0 THEN OverK(NoBatteryCost(C1, excess))
            ELSE OverK(BatteryCost(C1, dailyStoredKwh, dailyExportKwh))
        dailyTnbCost == TimesK(dailyTnbKwh)
        monthlyTnbCost == dailyTnbCost * 30
    IN [ A |-> A, B |-> B, C |-> C, B1 |-> B1, C1 |-> C1, D |-> D, E |-> E,
         F |-> F, G |-> G, H |-> H, I |-> I, J |-> J, K |-> K,
         dailyTnbKwh    |-> dailyTnbKwh,
         dailyTnbCost   |-> dailyTnbCost,
         dailyExportKwh |-> dailyExportKwh,
         dailyStoredKwh |-> dailyStoredKwh,
         monthlyTnbCost |-> monthlyTnbCost ]

(***************************************************************************)
(* State after construction (the useState initial values)                  *)
(***************************************************************************)
\* phone is kept as its number of digits
InitAudit ==
    [phone |-> 0, monthlyKwh |-> 900, futureEV |-> FALSE, futurePool |-> FALSE,
     futurePond |-> FALSE]

InitStats ==
    [tankLevel |-> 0, gridExport |-> 0, gridImport |-> 0,
     solarGenerated |-> 0, houseConsumed |-> 0]

InitWizard ==
    /\ step = 0
    /\ simProgress = 0
    /\ simStats = Some(InitStats)
    /\ finalReport = NULL
    /\ runs = <<>>
    /\ timeouts = 0

InitConfig ==
    /\ audit = InitAudit
    /\ monthlyKwhInput = <<900>>
    /\ dayUsagePercent = 60
    /\ panelWattage = 615
    /\ panelCount = 12
    /\ panelCountInput = <<12>>
    /\ hasBattery = FALSE
    /\ batteryUnits = 1
    /\ edits = 0
    /\ focus = "none"

helperVars == <<tariffCalls, tiered, inverse>>

wizardVars == <<step, simProgress, simStats, finalReport, runs, timeouts>>

configVars == <<audit, monthlyKwhInput, dayUsagePercent, panelWattage,
                panelCount, panelCountInput, hasBattery, batteryUnits, edits,
                focus>>

\* the closure of the current render
Render ==
    Closure(audit, dayUsagePercent, panelWattage, panelCount, hasBattery,
            batteryUnits)

(***************************************************************************)
(* Bounded inputs                                                          *)
(***************************************************************************)
NumMonthlyKwh == 5

NumDayPercents == 4

NumPanelCounts == 5

NumBatteryUnits == 3

MonthlyKwhOrder == <<900, 200, 3000, 2100, 550, 1500>>

DayPercentOrder == <<60, 10, 90, 70, 35, 50>>

PanelCountOrder == <<12, 6, 40, 20, 0, 30, 25>>

BatteryUnitsOrder == <<1, 6, 3, 2, 5>>

PanelWattages == {615, 700}

Prefix(order, n) == {order[i] : i \in 1..Min(n, Len(order))}

MonthlyKwhValues == Prefix(MonthlyKwhOrder, NumMonthlyKwh)

DayPercentValues == Prefix(DayPercentOrder, NumDayPercents)

PanelCountValues == Prefix(PanelCountOrder, NumPanelCounts)

BatteryUnitsValues == Prefix(BatteryUnitsOrder, NumBatteryUnits)

(***************************************************************************)
(* SpecFormula: computeFormula applied to every bounded configuration      *)
(***************************************************************************)
InitFormula ==
    /\ InitWizard
    /\ audit \in [phone : {0}, monthlyKwh : MonthlyKwhValues,
                  futureEV : BOOLEAN, futurePool : BOOLEAN,
                  futurePond : BOOLEAN]
    /\ monthlyKwhInput = <<audit.monthlyKwh>>
    /\ dayUsagePercent \in DayPercentValues
    /\ panelWattage \in PanelWattages
    /\ panelCount \in PanelCountValues
    /\ panelCountInput = <<panelCount>>
    /\ edits = 0
    /\ focus = "none"
    /\ hasBattery \in BOOLEAN
    /\ batteryUnits \in BatteryUnitsValues
    /\ formula = NULL
    /\ tariffCalls = <<>>
    /\ tiered = NULL
    /\ inverse = NULL

ComputeFormula ==
    /\ formula = NULL
    /\ formula' = Some(computeFormula(Render))
    /\ UNCHANGED <<wizardVars, configVars, helperVars>>

NextFormula == ComputeFormula

SpecFormula == InitFormula /\ [][NextFormula]_vars

(***************************************************************************)
(* SpecTariff: calculateKwhToBill applied to bounded inputs                *)
(***************************************************************************)
MaxTariffKwh == 1000

TariffStep == 50

\* tenths of a kWh: a grid, and the tenths around every tier boundary
TariffInputs ==
    {k \in 0..(MaxTariffKwh * 10) :
        \/ k % (TariffStep * 10) = 0
        \/ \E b \in {200, 300, 600, 900} : k \in (b * 10 - 1)..(b * 10 + 1)}

InitTariff ==
    /\ InitWizard
    /\ InitConfig
    /\ formula = NULL
    /\ tariffCalls = <<>>
    /\ tiered = NULL
    /\ inverse = NULL

TariffCall(kwh) ==
    LET r == TierLoop(1, kwh, 0)
        call == [kwh |-> kwh, totalBill |-> calculateKwhToBill(kwh),
                 remaining |-> r.remaining]
    IN /\ tariffCalls' = IF tariffCalls = <<>> THEN <<call>>
                         ELSE <<tariffCalls[Len(tariffCalls)], call>>
       /\ UNCHANGED <<wizardVars, configVars, formula, tiered, inverse>>

NextTariff == \E kwh \in TariffInputs : TariffCall(kwh)

SpecTariff == InitTariff /\ [][NextTariff]_vars

(***************************************************************************)
(* Quantities of the specification, from the configuration                 *)
(***************************************************************************)
UsageKwh == currentKwhUsage(audit)

\* dayFraction x usage / 30
DayDaily == dayUsagePercent * UsageKwh * (Unit \div 3000)

NightDaily == (100 - dayUsagePercent) * UsageKwh * (Unit \div 3000)

\* panelCount x panelWattage(kW) x 3.5
SolarDaily == (panelCount * panelWattage * 35 * (Unit \div 2000)) \div 5

Excess == SolarDaily - DayDaily

Capacity == batteryUnits * 10 * Unit

\* C1: Case A. Whenever computeFormula has run on a configuration with
\* dayDaily > solarDaily, with or without battery, the billed energy per day
\* is nightDaily + (dayDaily - solarDaily) and nothing is exported or stored.
C1_CaseA ==
    (formula # NULL /\ DayDaily > SolarDaily) =>
        /\ formula[1].dailyTnbKwh = NightDaily + (DayDaily - SolarDaily)
        /\ formula[1].dailyExportKwh = 0
        /\ formula[1].dailyStoredKwh = 0

C1_Witness ==
    /\ formula # NULL
    /\ DayDaily > SolarDaily
    /\ SolarDaily > 0
    /\ hasBattery
    /\ formula[1].dailyTnbKwh = NightDaily + (DayDaily - SolarDaily)

\* C2: Case B without battery. With solarDaily >= dayDaily and no battery the
\* whole excess is exported, nothing is stored, and the daily cost is
\* max(0, nightDaily x 0.5 - excess x 0.5 x 0.7), clamped after the credit is
\* subtracted; the billed kWh-equivalent is that cost divided by 0.5.
C2_NoBatteryCost == Max(0, (NightDaily * 50 - Excess * 35) \div 100)

C2_CaseBNoBattery ==
    (formula # NULL /\ SolarDaily >= DayDaily /\ ~hasBattery) =>
        /\ formula[1].dailyExportKwh = Excess
        /\ formula[1].dailyStoredKwh = 0
        /\ formula[1].dailyTnbCost = C2_NoBatteryCost
        /\ formula[1].dailyTnbKwh = 2 * C2_NoBatteryCost

\* the credit exceeds the night cost: the clamp decides the result
C2_Witness ==
    /\ formula # NULL
    /\ SolarDaily >= DayDaily
    /\ ~hasBattery
    /\ NightDaily > 0
    /\ Excess * 35 > NightDaily * 50
    /\ formula[1].dailyTnbCost = 0
    /\ formula[1].dailyExportKwh = Excess

\* C3: Case B with battery. stored = min(excess, capacity) and
\* exported = max(0, excess - capacity): a capacity >= excess stores it all
\* and exports nothing, a capacity < excess is filled exactly and the rest
\* is exported.
C3_BatterySplit ==
    (formula # NULL /\ SolarDaily >= DayDaily /\ hasBattery) =>
        /\ formula[1].dailyStoredKwh = Min(Excess, Capacity)
        /\ formula[1].dailyExportKwh = Max(0, Excess - Capacity)
        /\ Capacity >= Excess =>
              formula[1].dailyExportKwh = 0 /\ formula[1].dailyStoredKwh = Excess
        /\ Capacity < Excess =>
              /\ formula[1].dailyStoredKwh = Capacity
              /\ formula[1].dailyExportKwh = Excess - Capacity

C3_Witness ==
    /\ formula # NULL
    /\ SolarDaily >= DayDaily
    /\ hasBattery
    /\ Capacity < Excess
    /\ formula[1].dailyStoredKwh = Capacity
    /\ formula[1].dailyExportKwh = Excess - Capacity

\* C4: Case B with battery, cost. The daily cost is
\* max(0, max(0, nightDaily - stored) x 0.5 - exportedAfterBattery x 0.5 x 0.3):
\* stored energy offsets the night load first, export beyond the battery is
\* credited at 0.3, and the outer clamp follows the subtraction.
C4_BatteryCost ==
    Max(0, (Max(0, NightDaily - Min(Excess, Capacity)) * 50
            - Max(0, Excess - Capacity) * 15) \div 100)

C4_CaseBBatteryCost ==
    (formula # NULL /\ SolarDaily >= DayDaily /\ hasBattery) =>
        formula[1].dailyTnbCost = C4_BatteryCost

\* night load left after the battery, export beyond it, and a positive cost
C4_Witness ==
    /\ formula # NULL
    /\ SolarDaily >= DayDaily
    /\ hasBattery
    /\ NightDaily > Capacity
    /\ Excess > Capacity
    /\ formula[1].dailyTnbCost = C4_BatteryCost
    /\ formula[1].dailyTnbCost > 0

\* The progressive block tariff in closed form: k in tenths of a kWh, the
\* result in 1/10000 RM.
BlockTariff(k) ==
      218 * Min(2000, Max(0, k))
    + 334 * Min(1000, Max(0, k - 2000))
    + 516 * Min(3000, Max(0, k - 3000))
    + 546 * Min(3000, Max(0, k - 6000))
    + 571 * Max(0, k - 9000)

\* C5: calculateKwhToBill is the progressive block tariff (widths
\* 200/100/300/300/unbounded at 0.218/0.334/0.516/0.546/0.571): 0 at 0 kWh,
\* 43.6 at 200, 77.0 at 300, 231.8 at 600, 395.6 at 900, and the kWh consumed
\* across the tiers sum to the input (nothing remains).
C5_BlockTariff ==
    \A i \in 1..Len(tariffCalls) :
        LET c == tariffCalls[i]
        IN /\ c.totalBill = BlockTariff(c.kwh)
           /\ c.remaining = 0
           /\ c.kwh = 0    => c.totalBill = 0
           /\ c.kwh = 2000 => c.totalBill = 436000
           /\ c.kwh = 3000 => c.totalBill = 770000
           /\ c.kwh = 6000 => c.totalBill = 2318000
           /\ c.kwh = 9000 => c.totalBill = 3956000

C5_Witness ==
    /\ Len(tariffCalls) = 2
    /\ tariffCalls[1].kwh = 9000
    /\ tariffCalls[1].totalBill = 3956000
    /\ tariffCalls[2].kwh = 9001
    /\ tariffCalls[2].totalBill = 3956571

\* C6: calculateKwhToBill is monotonically non-decreasing: of two calls, the
\* one with the smaller input returns the smaller or equal bill.
C6_Monotone ==
    Len(tariffCalls) = 2 =>
        (tariffCalls[1].kwh <= tariffCalls[2].kwh =>
            tariffCalls[1].totalBill <= tariffCalls[2].totalBill)

C6_Witness ==
    /\ Len(tariffCalls) = 2
    /\ tariffCalls[1].kwh = 1999
    /\ tariffCalls[2].kwh = 2001
    /\ tariffCalls[1].totalBill < tariffCalls[2].totalBill

(***************************************************************************)
(* The wizard (SolarSimulator): inputs, navigation, the simulation timer   *)
(***************************************************************************)
MaxRuns == 1

MaxEdits == 2

NumTypedKwh == 2

NumTypedPanels == 2

NumWizardDayPercents == 2

NumWizardBatteryUnits == 2

TypedKwhOrder == <<200, 3000, 100, 5000, 900>>

TypedPanelOrder == <<6, 40, 0, 50, 12>>

\* what the user can leave in a number input: '' or a number
TypedKwh == {<<>>} \cup {<<n>> : n \in Prefix(TypedKwhOrder, NumTypedKwh)}

TypedPanels == {<<>>} \cup {<<n>> : n \in Prefix(TypedPanelOrder, NumTypedPanels)}

PhoneValues == {0, 10}

\* /^\d{9,12}$/ on the digits of the phone
isPhoneValid(a) == a.phone >= 9 /\ a.phone <= 12

\* Number(text): '' converts to 0
Number(text) == IF text = <<>> THEN 0 ELSE text[1]

Clamp(lo, hi, v) == Min(hi, Max(lo, v))

\* floor(x * r / 100), the product never formed whole
Hundredths(x, r) == (x \div 100) * r + ((x % 100) * r) \div 100

\* onBlur of the usage input: Math.min(3000, Math.max(200, Number(text)))
NormalizedKwh == Clamp(200, 3000, Number(monthlyKwhInput))

\* onBlur of the panel quantity input
NormalizedPanels == Clamp(6, 40, Number(panelCountInput))

\* A click moves the focus: the number input that had it runs its onBlur and
\* the component renders again before the click's own handler runs.  These
\* are the values of that render.
BlurAudit ==
    IF focus = "monthlyKwh"
    THEN [audit EXCEPT !.monthlyKwh = NormalizedKwh] ELSE audit

BlurKwhInput ==
    IF focus = "monthlyKwh" THEN <<NormalizedKwh>> ELSE monthlyKwhInput

BlurPanelCount == IF focus = "panelCount" THEN NormalizedPanels ELSE panelCount

BlurPanelInput ==
    IF focus = "panelCount" THEN <<NormalizedPanels>> ELSE panelCountInput

\* the blur a click causes, for a handler that sets none of these itself
ClickBlur ==
    /\ audit' = BlurAudit
    /\ monthlyKwhInput' = BlurKwhInput
    /\ panelCount' = BlurPanelCount
    /\ panelCountInput' = BlurPanelInput
    /\ focus' = "none"

otherConfigVars ==
    <<dayUsagePercent, panelWattage, hasBattery, batteryUnits, edits>>

---------------------------------------------------------------------------
\* step 0: "See how it works"
TestimonialsNext ==
    /\ step = 0
    /\ step' = 1
    /\ UNCHANGED <<simProgress, simStats, finalReport, runs, timeouts,
                   configVars, formula, helperVars>>

\* step 1: phone input and its button
PhoneChange(v) ==
    /\ step = 1
    /\ audit' = [audit EXCEPT !.phone = v]
    /\ UNCHANGED <<wizardVars, monthlyKwhInput, dayUsagePercent, panelWattage,
                   panelCount, panelCountInput, hasBattery, batteryUnits,
                   edits, focus, formula, helperVars>>

WelcomeNext ==
    /\ step = 1
    /\ isPhoneValid(audit)
    /\ step' = 2
    /\ UNCHANGED <<simProgress, simStats, finalReport, runs, timeouts,
                   configVars, formula, helperVars>>

\* step 2: the monthly usage input
MonthlyKwhChange(maxEdits, rawValue) ==
    /\ step = 2
    /\ edits < maxEdits
    /\ edits' = edits + 1
    /\ monthlyKwhInput' = rawValue
    /\ audit' = IF rawValue # <<>>
                THEN [audit EXCEPT !.monthlyKwh = Number(rawValue)]
                ELSE audit
    /\ focus' = "monthlyKwh"
    /\ UNCHANGED <<wizardVars, dayUsagePercent, panelWattage, panelCount,
                   panelCountInput, hasBattery, batteryUnits, formula,
                   helperVars>>

\* the user enters the field, if not in it, and leaves it
MonthlyKwhBlur ==
    /\ step = 2
    /\ LET normalizedValue == NormalizedKwh
       IN /\ audit' = [audit EXCEPT !.monthlyKwh = normalizedValue]
          /\ monthlyKwhInput' = <<normalizedValue>>
    /\ focus' = "none"
    /\ UNCHANGED <<wizardVars, dayUsagePercent, panelWattage, panelCount,
                   panelCountInput, hasBattery, batteryUnits, edits, formula,
                   helperVars>>

ToggleFuture(maxEdits, flag) ==
    /\ step = 2
    /\ edits < maxEdits
    /\ edits' = edits + 1
    /\ audit' = [BlurAudit EXCEPT ![flag] = ~audit[flag]]
    /\ monthlyKwhInput' = BlurKwhInput
    /\ focus' = "none"
    /\ UNCHANGED <<wizardVars, dayUsagePercent, panelWattage,
                   panelCount, panelCountInput, hasBattery, batteryUnits,
                   formula, helperVars>>

AuditNext ==
    /\ step = 2
    /\ step' = 3
    /\ ClickBlur
    /\ UNCHANGED <<simProgress, simStats, finalReport, runs, timeouts,
                   otherConfigVars, formula, helperVars>>

\* step 3: the strategy inputs
DayUsageChange(maxEdits, v) ==
    /\ step = 3
    /\ edits < maxEdits
    /\ edits' = edits + 1
    /\ dayUsagePercent' = v
    /\ ClickBlur
    /\ UNCHANGED <<wizardVars, panelWattage, hasBattery, batteryUnits,
                   formula, helperVars>>

PanelWattageClick(maxEdits, watt) ==
    /\ step = 3
    /\ edits < maxEdits
    /\ edits' = edits + 1
    /\ panelWattage' = watt
    /\ ClickBlur
    /\ UNCHANGED <<wizardVars, dayUsagePercent, hasBattery, batteryUnits,
                   formula, helperVars>>

PanelCountChange(maxEdits, rawValue) ==
    /\ step = 3
    /\ edits < maxEdits
    /\ edits' = edits + 1
    /\ panelCountInput' = rawValue
    /\ panelCount' = IF rawValue # <<>> THEN Number(rawValue) ELSE panelCount
    /\ focus' = "panelCount"
    /\ UNCHANGED <<wizardVars, audit, monthlyKwhInput, dayUsagePercent,
                   panelWattage, hasBattery, batteryUnits, formula,
                   helperVars>>

PanelCountBlur ==
    /\ step = 3
    /\ LET normalizedValue == NormalizedPanels
       IN /\ panelCount' = normalizedValue
          /\ panelCountInput' = <<normalizedValue>>
    /\ focus' = "none"
    /\ UNCHANGED <<wizardVars, audit, monthlyKwhInput, dayUsagePercent,
                   panelWattage, hasBattery, batteryUnits, edits, formula,
                   helperVars>>

ToggleBattery(maxEdits) ==
    /\ step = 3
    /\ edits < maxEdits
    /\ edits' = edits + 1
    /\ hasBattery' = ~hasBattery
    /\ ClickBlur
    /\ UNCHANGED <<wizardVars, dayUsagePercent, panelWattage, batteryUnits,
                   formula, helperVars>>

\* the slider is rendered only with hasBattery
BatteryUnitsChange(maxEdits, v) ==
    /\ step = 3
    /\ hasBattery
    /\ edits < maxEdits
    /\ edits' = edits + 1
    /\ batteryUnits' = v
    /\ ClickBlur
    /\ UNCHANGED <<wizardVars, dayUsagePercent, panelWattage, hasBattery,
                   formula, helperVars>>

---------------------------------------------------------------------------
\* The locals of one runSimulation call; day counts half days.
ZeroStats ==
    [tankLevel |-> 0, gridExport |-> 0, gridImport |-> 0,
     solarGenerated |-> 0, houseConsumed |-> 0, wastedMoney |-> 0]

NewRun(c) ==
    [closure |-> c, day |-> 0, currentStats |-> ZeroStats, interval |-> TRUE,
     reports |-> 0]

runSimulation(maxRuns) ==
    /\ step = 3
    /\ Len(runs) < maxRuns
    /\ step' = 4
    /\ simProgress' = 0
    /\ ClickBlur
    /\ runs' = Append(runs, NewRun(Closure(BlurAudit, dayUsagePercent,
                                           panelWattage, BlurPanelCount,
                                           hasBattery, batteryUnits)))
    /\ UNCHANGED <<simStats, finalReport, timeouts, otherConfigVars, formula,
                   helperVars>>

\* (day / totalDays) * 100, in thirds of a percent
Progress(day) == (day * 300) \div (2 * totalDays)

\* mutant: the whole daily quantity is added at every tick
HalfWhole(x) == x

\* x / 2: two ticks per day
Half(x) == x \div 2

\* mutant: the fill is left a fraction, not a percentage
TankLevelFraction(c, stored) ==
    IF c.hasBattery /\ batteryCapacity(c.batteryUnits) > 0
    THEN (stored * (TankUnit \div Unit))
             \div (batteryCapacity(c.batteryUnits) \div Unit)
    ELSE 0

\* hasBattery && batteryCapacity > 0 ? stored / batteryCapacity * 100 : 0
TankLevel(c, stored) ==
    IF c.hasBattery /\ batteryCapacity(c.batteryUnits) > 0
    THEN (stored * 100 * (TankUnit \div Unit))
             \div (batteryCapacity(c.batteryUnits) \div Unit)
    ELSE 0

\* the accumulation of one tick
Accumulate(c, stats) ==
    LET f == computeFormula(c)
        dailySolar == f.G
        dailyConsumption == f.A \div 30
        imported == f.dailyTnbKwh
        exported == f.dailyExportKwh
    IN [stats EXCEPT
          !.solarGenerated = @ + Half(dailySolar),
          !.houseConsumed  = @ + Half(dailyConsumption),
          !.gridExport     = @ + Half(exported),
          !.gridImport     = @ + Half(imported),
          !.tankLevel      = TankLevel(c, f.dailyStoredKwh)]

\* mutant: the loop stops one tick late
RunDoneLate(day) == day > 2 * totalDays

\* day >= totalDays
RunDone(day) == day >= 2 * totalDays

\* mutant: the new bill is the daily cost
NewBillDaily(f) == f.dailyTnbCost

NewBill(f) == f.monthlyTnbCost

\* mutant: the two values are subtracted the other way round
LossAmountSwapped(gridExport) ==
    Hundredths(gridExport, NEM_EXPORT_RATE) - Hundredths(gridExport, AVG_GRID_RATE)

\* potentialValueIfUsed - actualValueSold
LossAmount(gridExport) ==
    Hundredths(gridExport, AVG_GRID_RATE) - Hundredths(gridExport, NEM_EXPORT_RATE)

\* mutant: the old bill is taken from the block tariff, as in the tiered
\* variant of the simulator
OldBillTiered(f) == (calculateKwhToBill(f.A \div (Unit \div 10)) * 12) \div 5

\* formula.A * formula.K
OldBill(f) == TimesK(f.A)

\* the report calculateFinalReport(stats) sets, computed in the closure c
calculateFinalReport(c, stats) ==
    LET f == computeFormula(c)
        oldBill == OldBill(f)
        newBill == NewBill(f)
        lossAmount == LossAmount(stats.gridExport)
        monthlySavings == oldBill - newBill
    IN [ oldBill        |-> oldBill,
         newBill        |-> newBill,
         monthlySavings |-> monthlySavings,
         totalGenerated |-> stats.solarGenerated,
         totalUsed      |-> stats.houseConsumed - stats.gridImport,
         totalExported  |-> stats.gridExport,
         lossAmount     |-> lossAmount ]

\* mutant: the callback reads the configuration of the latest render
TickClosureCurrent(r) == Render

\* The interval callback, computeFormula and calculateFinalReport it calls
\* are those of the render in which runSimulation was called.
TickClosure(r) == r.closure

\* one firing of the interval callback of run i
Tick(i) ==
    /\ i \in 1..Len(runs)
    /\ runs[i].interval
    /\ LET r     == runs[i]
           day   == r.day + 1
           stats == Accumulate(TickClosure(r), r.currentStats)
           done  == RunDone(day)
       IN /\ simProgress' = Progress(day)
          /\ simStats' = Some(stats)
          /\ runs' = [runs EXCEPT ![i] =
                        [r EXCEPT !.day = day,
                                  !.currentStats = stats,
                                  !.interval = ~done,
                                  !.reports = IF done THEN @ + 1 ELSE @]]
          /\ finalReport' = IF done
                            THEN Some(calculateFinalReport(TickClosure(r), stats))
                            ELSE finalReport
          /\ timeouts' = IF done THEN timeouts + 1 ELSE timeouts
    /\ UNCHANGED <<step, configVars, formula, helperVars>>

\* setTimeout(() => setStep(5), 1000)
\* The step change unmounts the number input that has the focus; whether
\* the removal delivers a blur to its handler is left to the browser.
TimeoutFire ==
    /\ timeouts > 0
    /\ timeouts' = timeouts - 1
    /\ step' = 5
    /\ \/ ClickBlur
       \/ /\ focus # "none"
          /\ focus' = "none"
          /\ UNCHANGED <<audit, monthlyKwhInput, panelCount, panelCountInput>>
    /\ UNCHANGED <<simProgress, simStats, finalReport, runs, otherConfigVars,
                   formula, helperVars>>

---------------------------------------------------------------------------
\* mutant: the threshold is applied to the exported kWh
isTrapDetectedByExport ==
    finalReport # NULL /\ finalReport[1].totalExported > 50 * Unit

\* step 5: the report renders nothing without finalReport
isTrapDetected == finalReport # NULL /\ finalReport[1].lossAmount > 50 * Unit

\* {isTrapDetected && !hasBattery && (...)}: the "60% Trap" alert
TrapAlertShown == step = 5 /\ isTrapDetected /\ ~hasBattery

AddBatteryToFix ==
    /\ TrapAlertShown
    /\ step' = 3
    /\ hasBattery' = TRUE
    /\ UNCHANGED <<simProgress, simStats, finalReport, runs, timeouts, audit,
                   monthlyKwhInput, dayUsagePercent, panelWattage, panelCount,
                   panelCountInput, batteryUnits, edits, focus, formula,
                   helperVars>>

StartNewAudit ==
    /\ step = 5
    /\ finalReport # NULL
    /\ step' = 2
    /\ simStats' = NULL
    /\ finalReport' = NULL
    /\ UNCHANGED <<simProgress, runs, timeouts, configVars, formula,
                   helperVars>>

\* the header's Back button
Back ==
    /\ step > 0
    /\ step' = Max(0, step - 1)
    /\ ClickBlur
    /\ UNCHANGED <<simProgress, simStats, finalReport, runs, timeouts,
                   otherConfigVars, formula, helperVars>>

---------------------------------------------------------------------------
Init ==
    /\ InitWizard
    /\ InitConfig
    /\ formula = NULL
    /\ tariffCalls = <<>>
    /\ tiered = NULL
    /\ inverse = NULL

Next ==
    \/ TestimonialsNext
    \/ \E v \in PhoneValues : PhoneChange(v)
    \/ WelcomeNext
    \/ \E rawValue \in TypedKwh : MonthlyKwhChange(MaxEdits, rawValue)
    \/ MonthlyKwhBlur
    \/ \E flag \in {"futureEV", "futurePool", "futurePond"} :
          ToggleFuture(MaxEdits, flag)
    \/ AuditNext
    \/ \E v \in Prefix(DayPercentOrder, NumWizardDayPercents) :
          DayUsageChange(MaxEdits, v)
    \/ \E watt \in PanelWattages : PanelWattageClick(MaxEdits, watt)
    \/ \E rawValue \in TypedPanels : PanelCountChange(MaxEdits, rawValue)
    \/ PanelCountBlur
    \/ ToggleBattery(MaxEdits)
    \/ \E v \in Prefix(BatteryUnitsOrder, NumWizardBatteryUnits) :
          BatteryUnitsChange(MaxEdits, v)
    \/ runSimulation(MaxRuns)
    \/ \E i \in 1..Len(runs) : Tick(i)
    \/ TimeoutFire
    \/ AddBatteryToFix
    \/ StartNewAudit
    \/ Back

Spec == Init /\ [][Next]_vars

(***************************************************************************)
(* SpecRun: the simulation from the strategy step, the configuration one   *)
(* of a few the inputs above can produce; navigation and timers only.      *)
(***************************************************************************)
Scenario(kwh, ev, pool, pond, dup, pw, pc, hb, bu) ==
    [monthlyKwh |-> kwh, futureEV |-> ev, futurePool |-> pool,
     futurePond |-> pond, dayUsagePercent |-> dup, panelWattage |-> pw,
     panelCount |-> pc, hasBattery |-> hb, batteryUnits |-> bu]

Scenarios ==
    { Scenario(900,  FALSE, FALSE, FALSE, 60, 615, 12, FALSE, 1),  \* the defaults
      Scenario(900,  FALSE, FALSE, FALSE, 60, 615,  6, FALSE, 1),  \* Case A
      Scenario(900,  FALSE, FALSE, FALSE, 60, 615, 12, TRUE,  1),  \* all stored
      Scenario(900,  FALSE, FALSE, FALSE, 60, 615, 40, TRUE,  1),  \* battery full
      Scenario(900,  TRUE,  FALSE, TRUE,  60, 700,  6, TRUE,  6),  \* Case A, battery
      Scenario(200,  FALSE, FALSE, FALSE, 90, 700, 40, FALSE, 1),  \* credit > cost
      Scenario(2100, FALSE, FALSE, FALSE, 70, 700, 20, FALSE, 1) } \* G = B1

InitRun ==
    /\ step = 3
    /\ simProgress = 0
    /\ simStats = Some(InitStats)
    /\ finalReport = NULL
    /\ runs = <<>>
    /\ timeouts = 0
    /\ \E s \in Scenarios :
          /\ audit = [phone |-> 10, monthlyKwh |-> s.monthlyKwh,
                      futureEV |-> s.futureEV, futurePool |-> s.futurePool,
                      futurePond |-> s.futurePond]
          /\ monthlyKwhInput = <<s.monthlyKwh>>
          /\ dayUsagePercent = s.dayUsagePercent
          /\ panelWattage = s.panelWattage
          /\ panelCount = s.panelCount
          /\ panelCountInput = <<s.panelCount>>
          /\ hasBattery = s.hasBattery
          /\ batteryUnits = s.batteryUnits
    /\ edits = 0
    /\ focus = "none"
    /\ formula = NULL
    /\ tariffCalls = <<>>
    /\ tiered = NULL
    /\ inverse = NULL

NextRun ==
    \/ TestimonialsNext
    \/ \E v \in PhoneValues : PhoneChange(v)
    \/ WelcomeNext
    \/ AuditNext
    \/ runSimulation(MaxRuns)
    \/ \E i \in 1..Len(runs) : Tick(i)
    \/ TimeoutFire
    \/ AddBatteryToFix
    \/ StartNewAudit
    \/ Back

SpecRun == InitRun /\ [][NextRun]_vars

(***************************************************************************)
(* SpecRerun: as SpecRun, "Launch Simulation" can be clicked a second time *)
(***************************************************************************)
MaxReruns == 2

NextRerun ==
    \/ TestimonialsNext
    \/ \E v \in PhoneValues : PhoneChange(v)
    \/ WelcomeNext
    \/ AuditNext
    \/ runSimulation(MaxReruns)
    \/ \E i \in 1..Len(runs) : Tick(i)
    \/ TimeoutFire
    \/ AddBatteryToFix
    \/ StartNewAudit
    \/ Back

SpecRerun == InitRun /\ [][NextRerun]_vars

(***************************************************************************)
(* SpecRetype: the wizard from its first step with two launches, the two   *)
(* number inputs typed into with values outside their ranges.              *)
(***************************************************************************)
MaxRetypes == 1

RetypedKwh == {<<100>>, <<5000>>}

RetypedPanels == {<<0>>, <<50>>}

NextRetype ==
    \/ TestimonialsNext
    \/ \E v \in PhoneValues : PhoneChange(v)
    \/ WelcomeNext
    \/ \E rawValue \in RetypedKwh : MonthlyKwhChange(MaxRetypes, rawValue)
    \/ MonthlyKwhBlur
    \/ AuditNext
    \/ \E rawValue \in RetypedPanels : PanelCountChange(MaxRetypes, rawValue)
    \/ PanelCountBlur
    \/ runSimulation(MaxReruns)
    \/ \E i \in 1..Len(runs) : Tick(i)
    \/ TimeoutFire
    \/ AddBatteryToFix
    \/ StartNewAudit
    \/ Back

SpecRetype == Init /\ [][NextRetype]_vars

(***************************************************************************)
(* Claims about a simulation run                                           *)
(***************************************************************************)
Finished(r) == r.day = 60 /\ ~r.interval

\* C7: every run started by runSimulation performs exactly 60 ticks (day
\* 0.5 .. 30), then stops its timer and never ticks again, and derives the
\* final report exactly once, at the 60th tick and not before.
C7_RunShape ==
    \A i \in 1..Len(runs) :
        /\ runs[i].day \in 0..60
        /\ runs[i].interval <=> runs[i].day < 60
        /\ runs[i].reports = IF runs[i].day = 60 THEN 1 ELSE 0

C7_Witness ==
    /\ Len(runs) >= 1
    /\ Finished(runs[1])
    /\ runs[1].reports = 1
    /\ finalReport # NULL
    /\ timeouts = 1

\* the daily figures of a closure, as the specification states them
DailySolarOf(c) ==
    (c.panelCount * c.panelWattage * 35 * (Unit \div 2000)) \div 5

DailyUsageOf(c) == (c.currentKwhUsage * Unit) \div 30

\* C8: each tick adds exactly half of the daily quantities to the run's
\* accumulator and publishes it: after tick k, solarGenerated = k/2 x
\* dailySolar, houseConsumed = k/2 x usage/30, gridImport = k/2 x dailyTnbKwh,
\* gridExport = k/2 x dailyExportKwh and progress = k/60 x 100; at tick 60
\* the totals are 30 x the daily figures and houseConsumed the monthly usage.
C8_AfterTick(r, stats, progress) ==
    LET k == r.day
        f == computeFormula(r.closure)
    IN /\ 2 * stats.solarGenerated = k * DailySolarOf(r.closure)
       /\ 2 * stats.houseConsumed = k * DailyUsageOf(r.closure)
       /\ 2 * stats.gridImport = k * f.dailyTnbKwh
       /\ 2 * stats.gridExport = k * f.dailyExportKwh
       /\ progress * 60 = k * 100 * 3
       /\ k = 60 => /\ stats.solarGenerated = 30 * DailySolarOf(r.closure)
                    /\ stats.houseConsumed = r.closure.currentKwhUsage * Unit
                    /\ stats.gridImport = 30 * f.dailyTnbKwh
                    /\ stats.gridExport = 30 * f.dailyExportKwh

C8_TickAccumulates ==
    [][\A i \in 1..Len(runs) :
          runs'[i].day = runs[i].day + 1 =>
              /\ runs'[i].day \in 1..60
              /\ simStats' = Some(runs'[i].currentStats)
              /\ C8_AfterTick(runs'[i], simStats'[1], simProgress')]_vars

C8_Witness ==
    /\ Len(runs) >= 1
    /\ runs[1].day = 60
    /\ simProgress = 300
    /\ simStats = Some(runs[1].currentStats)
    /\ simStats[1].gridExport > 0
    /\ simStats[1].gridImport > 0
    /\ simStats[1].houseConsumed = runs[1].closure.currentKwhUsage * Unit

\* C9: the report a run derives has oldBill = adjusted monthly usage x 0.5,
\* newBill = the engine's monthly grid cost = daily billed cost x 30, which
\* is 0.5 x the gridImport accumulated over the run's 60 ticks, and
\* monthlySavings = oldBill - newBill.
C9_ReportOf(r, report) ==
    LET f == computeFormula(r.closure)
    IN /\ 2 * report.oldBill = r.closure.currentKwhUsage * Unit
       /\ report.newBill = f.dailyTnbCost * 30
       /\ 2 * report.newBill = r.currentStats.gridImport
       /\ report.monthlySavings = report.oldBill - report.newBill

C9_ReportBills ==
    [][\A i \in 1..Len(runs) :
          runs'[i].reports = runs[i].reports + 1 =>
              /\ finalReport' # NULL
              /\ runs'[i].day = 60
              /\ C9_ReportOf(runs'[i], finalReport'[1])]_vars

C9_Witness ==
    /\ Len(runs) >= 1
    /\ Finished(runs[1])
    /\ finalReport # NULL
    /\ finalReport[1].newBill > 0
    /\ finalReport[1].monthlySavings > 0
    /\ C9_ReportOf(runs[1], finalReport[1])

\* C10: in every final report lossAmount = totalExported x 0.45 -
\* totalExported x 0.24, and lossAmount >= 0.
C10_LossAmount ==
    finalReport # NULL =>
        LET report == finalReport[1]
            q == report.totalExported \div 100
        IN /\ report.totalExported = 100 * q
           /\ report.totalExported >= 0
           /\ report.lossAmount = q * 45 - q * 24
           /\ report.lossAmount >= 0

C10_Witness ==
    /\ finalReport # NULL
    /\ finalReport[1].totalExported > 0
    /\ finalReport[1].lossAmount > 0

(***************************************************************************)
(* Claims about re-running and leaving a simulation                        *)
(***************************************************************************)
LastRun == runs[Len(runs)]

EarlierRunsFinished == \A i \in 1..(Len(runs) - 1) : Finished(runs[i])

ShowsStatsOf(r) ==
    simStats = NULL
    \/ \A k \in {"tankLevel", "gridExport", "gridImport", "solarGenerated",
                 "houseConsumed"} : simStats[1][k] = r.currentStats[k]

\* C11: a re-run discards the prior results: from the second call of
\* runSimulation (every earlier run finished) until the new run derives its
\* own report, finalReport is null, simStats is the new run's accumulator
\* (all zero before its first tick) and simProgress is 0 before its first tick.
C11_RerunDiscards ==
    (Len(runs) >= 2 /\ EarlierRunsFinished /\ LastRun.reports = 0) =>
        /\ finalReport = NULL
        /\ ShowsStatsOf(LastRun)
        /\ LastRun.day = 0 => simProgress = 0

\* C12: at most one simulation loop is in flight: never two runs whose
\* interval is still registered.
C12_SingleLoop ==
    Cardinality({i \in 1..Len(runs) : runs[i].interval}) <= 1

\* C13: once the user has left the simulation step backwards (step < 4), the
\* run that was in flight touches nothing: while the wizard stays below step
\* 4 simStats, simProgress and finalReport do not change, and no step from
\* there moves the wizard to the report (step 5).
C13_CancelSafe ==
    [][step < 4 =>
          /\ step' # 5
          /\ step' < 4 => UNCHANGED <<simStats, simProgress, finalReport>>]_vars

(***************************************************************************)
(* Claims about boundary configurations and the worked scenario            *)
(***************************************************************************)
\* C14: zero solar. Whenever computeFormula has run on a configuration with
\* panelCount = 0, with or without battery, the whole usage is billed at the
\* flat rate (daily billed kWh = usage / 30, monthly cost = usage x 0.5) and
\* nothing is exported or stored.
C14_ZeroSolar ==
    (formula # NULL /\ panelCount = 0) =>
        /\ formula[1].dailyTnbKwh * 30 = UsageKwh * Unit
        /\ formula[1].dailyTnbCost * 60 = UsageKwh * Unit
        /\ formula[1].monthlyTnbCost * 2 = UsageKwh * Unit
        /\ formula[1].dailyExportKwh = 0
        /\ formula[1].dailyStoredKwh = 0

C14_Witness ==
    /\ formula # NULL
    /\ panelCount = 0
    /\ hasBattery
    /\ formula[1].G = 0
    /\ formula[1].monthlyTnbCost * 2 = UsageKwh * Unit
    /\ formula[1].monthlyTnbCost > 0

\* C15: the boundary solarDaily = dayDaily. Whenever computeFormula has run
\* on a configuration whose solar generation equals its daytime load, with or
\* without battery, nothing is exported, nothing is stored, and the daily
\* cost is nightDaily x 0.5 exactly.
C15_Boundary ==
    (formula # NULL /\ SolarDaily = DayDaily) =>
        /\ formula[1].dailyExportKwh = 0
        /\ formula[1].dailyStoredKwh = 0
        /\ formula[1].dailyTnbCost * 2 = NightDaily
        /\ formula[1].dailyTnbKwh = NightDaily

C15_Witness ==
    /\ formula # NULL
    /\ SolarDaily = DayDaily
    /\ SolarDaily > 0
    /\ hasBattery
    /\ NightDaily > 0
    /\ formula[1].dailyTnbCost * 2 = NightDaily

\* a quantity in Unit, to the nearest hundredth
Cents(x) == Round(x, Unit \div 100)

IsScenario16(c) ==
    /\ c.currentKwhUsage = 900
    /\ c.dayUsagePercent = 60
    /\ c.panelCount = 12
    /\ c.panelWattage = 615
    /\ ~c.hasBattery

\* the figures of the scenario the code and the statement agree on
C16_DailyFigures(f, report) ==
    /\ Cents(f.G) = 2583
    /\ Cents(f.B1) = 1800
    /\ Cents(f.dailyExportKwh) = 783
    /\ Cents(f.C1) = 1200
    /\ Cents((TimesK(f.dailyExportKwh) * 7) \div 10) = 274
    /\ Cents(f.dailyTnbCost) = 326
    /\ Cents(f.dailyTnbKwh) = 652
    /\ Cents(report.oldBill) = 45000

\* C16 as stated: in the scenario without battery (usage 900, 60 % by day,
\* 12 panels of 615 W) dailySolar = 25.83, dayDaily = 18, exported = 7.83,
\* nightDaily = 12, credit = 2.74, net night cost = 3.26, daily billed kWh =
\* 6.52, monthlyCost = 97.86, oldBill = 450 and monthly savings = 352.14.
C16_ScenarioAsStated ==
    [][\A i \in 1..Len(runs) :
          (runs'[i].reports = runs[i].reports + 1 /\ IsScenario16(runs[i].closure))
          => LET f == computeFormula(runs[i].closure)
                 report == finalReport'[1]
             IN /\ C16_DailyFigures(f, report)
                /\ Cents(f.monthlyTnbCost) = 9786
                /\ Cents(report.newBill) = 9786
                /\ Cents(report.monthlySavings) = 35214]_vars

\* C16 amended: the same scenario and the same daily figures, with
\* monthlyCost = 3.2595 x 30 = 97.785 and monthly savings = 450 - 97.785 =
\* 352.215.
C16_Scenario ==
    [][\A i \in 1..Len(runs) :
          (runs'[i].reports = runs[i].reports + 1 /\ IsScenario16(runs[i].closure))
          => LET f == computeFormula(runs[i].closure)
                 report == finalReport'[1]
             IN /\ C16_DailyFigures(f, report)
                /\ f.monthlyTnbCost = 97785 * (Unit \div 1000)
                /\ report.newBill = 97785 * (Unit \div 1000)
                /\ report.monthlySavings = 352215 * (Unit \div 1000)]_vars

C16_Witness ==
    /\ Len(runs) >= 1
    /\ Finished(runs[1])
    /\ IsScenario16(runs[1].closure)
    /\ finalReport # NULL
    /\ finalReport[1].oldBill = 450 * Unit
    /\ finalReport[1].newBill = 97785 * (Unit \div 1000)

\* C17: the same scenario with one 10 kWh battery unit: stored = 7.83 (the
\* whole excess), export = 0, unmet night load = 4.17, daily cost = 2.085,
\* monthly cost = 62.55, strictly below the monthly cost without battery.
IsScenario17 ==
    /\ UsageKwh = 900
    /\ dayUsagePercent = 60
    /\ panelCount = 12
    /\ panelWattage = 615
    /\ hasBattery
    /\ batteryUnits = 1

C17_BatteryScenario ==
    (formula # NULL /\ IsScenario17) =>
        /\ formula[1].dailyStoredKwh = 783 * (Unit \div 100)
        /\ formula[1].dailyExportKwh = 0
        /\ formula[1].C1 - formula[1].dailyStoredKwh = 417 * (Unit \div 100)
        /\ formula[1].dailyTnbCost = 2085 * (Unit \div 1000)
        /\ formula[1].monthlyTnbCost = 6255 * (Unit \div 100)
        /\ formula[1].monthlyTnbCost <
              computeFormula([Render EXCEPT !.hasBattery = FALSE]).monthlyTnbCost

C17_Witness ==
    /\ formula # NULL
    /\ IsScenario17
    /\ audit.monthlyKwh = 900
    /\ formula[1].monthlyTnbCost = 6255 * (Unit \div 100)

(***************************************************************************)
(* Claims about the tank indicator, the projected usage and the alert      *)
(***************************************************************************)
DayDailyOf(c) == c.dayUsagePercent * c.currentKwhUsage * (Unit \div 3000)

\* stored / batteryCapacity x 100 of a closure as the specification states
\* it, in 1/TankUnit of a percent
C18_TankOf(c) ==
    IF c.hasBattery /\ c.batteryUnits * 10 > 0
    THEN LET stored == Min(Max(0, DailySolarOf(c) - DayDailyOf(c)),
                           c.batteryUnits * 10 * Unit)
         IN (stored * 60) \div c.batteryUnits
    ELSE 0

\* C18: after every tick the run's tankLevel is dailyStored / batteryCapacity
\* x 100 when its closure has a battery of positive capacity and 0 otherwise,
\* and every tankLevel, of a run or displayed, lies in 0 .. 100.
C18_TankLevel ==
    /\ \A i \in 1..Len(runs) :
          /\ runs[i].day >= 1 =>
                /\ runs[i].currentStats.tankLevel = C18_TankOf(runs[i].closure)
                /\ runs[i].closure.hasBattery =>
                      batteryCapacity(runs[i].closure.batteryUnits) > 0
          /\ runs[i].currentStats.tankLevel >= 0
          /\ runs[i].currentStats.tankLevel <= 100 * TankUnit
    /\ simStats # NULL =>
          /\ simStats[1].tankLevel >= 0
          /\ simStats[1].tankLevel <= 100 * TankUnit

\* a battery filled to 78.3 %
C18_Witness ==
    /\ Len(runs) >= 1
    /\ runs[1].day >= 1
    /\ runs[1].closure.hasBattery
    /\ simStats # NULL
    /\ simStats[1].tankLevel = runs[1].currentStats.tankLevel
    /\ simStats[1].tankLevel = 783 * (TankUnit \div 10)

\* the multiplier of the specification, in hundredths
C19_Multiplier ==
    100 + (IF audit.futureEV THEN 30 ELSE 0)
        + (IF audit.futurePool THEN 20 ELSE 0)
        + (IF audit.futurePond THEN 15 ELSE 0)

\* C19 as stated: the usage fed to computeFormula equals base usage x
\* (1 + 0.3 if EV + 0.2 if pool + 0.15 if pond).
C19_AsStated ==
    formula # NULL =>
        /\ formula[1].A % Unit = 0
        /\ (formula[1].A \div Unit) * 100 = audit.monthlyKwh * C19_Multiplier

\* C19 amended: the usage fed to computeFormula is a whole number of kWh
\* within 0.5 of base usage x (1 + 0.3 if EV + 0.2 if pool + 0.15 if pond),
\* the surcharges added to 1.0 and applied once; it equals the product when
\* the product is whole.
C19_RoundedOnce ==
    formula # NULL =>
        LET fed == (formula[1].A \div Unit) * 100
            product == audit.monthlyKwh * C19_Multiplier
        IN /\ formula[1].A % Unit = 0
           /\ fed - product <= 50
           /\ product - fed <= 50
           /\ product % 100 = 0 => fed = product

\* all three surcharges on 550 kWh: 907.5, fed as 908
C19_Witness ==
    /\ formula # NULL
    /\ audit.futureEV /\ audit.futurePool /\ audit.futurePond
    /\ audit.monthlyKwh = 550
    /\ formula[1].A = 908 * Unit

\* C20 as stated: on the report the "add a battery" alert is presented
\* exactly when lossAmount exceeds 50.
C20_AsStated ==
    (step = 5 /\ finalReport # NULL) =>
        (TrapAlertShown <=> finalReport[1].lossAmount > 50 * Unit)

\* C20 amended: on the report the alert is presented exactly when lossAmount
\* exceeds 50 and no battery is configured; it is not presented when
\* lossAmount is 50 or less, nor when a battery is configured.
C20_TrapAlert ==
    (step = 5 /\ finalReport # NULL) =>
        /\ TrapAlertShown <=>
              (finalReport[1].lossAmount > 50 * Unit /\ ~hasBattery)
        /\ finalReport[1].lossAmount <= 50 * Unit => ~TrapAlertShown

C20_Witness ==
    /\ step = 5
    /\ finalReport # NULL
    /\ finalReport[1].lossAmount > 50 * Unit
    /\ ~hasBattery
    /\ TrapAlertShown

(***************************************************************************)
(* Claims about the configuration a run uses                               *)
(***************************************************************************)
\* C21: the configuration is static across a run.  The closure of a run is
\* the configuration rendered when runSimulation was called and never
\* changes; every tick adds half the daily figures of that configuration and
\* sets its tankLevel, and the report is derived from it, whatever the inputs
\* hold by then.
C21_TickOf(c, old, new) ==
    LET f == computeFormula(c)
    IN /\ 2 * (new.solarGenerated - old.solarGenerated) = DailySolarOf(c)
       /\ 2 * (new.houseConsumed - old.houseConsumed) = DailyUsageOf(c)
       /\ 2 * (new.gridImport - old.gridImport) = f.dailyTnbKwh
       /\ 2 * (new.gridExport - old.gridExport) = f.dailyExportKwh
       /\ new.tankLevel = C18_TankOf(c)

C21_ReportOf(c, stats, report) ==
    /\ 2 * report.oldBill = c.currentKwhUsage * Unit
    /\ report.newBill = computeFormula(c).monthlyTnbCost
    /\ report.totalGenerated = 30 * DailySolarOf(c)
    /\ report.totalExported = stats.gridExport

C21_StaticConfiguration ==
    [][/\ Len(runs') = Len(runs) + 1 => runs'[Len(runs')].closure = Render'
       /\ \A i \in 1..Len(runs) :
             /\ runs'[i].closure = runs[i].closure
             /\ runs'[i].day = runs[i].day + 1 =>
                   /\ C21_TickOf(runs[i].closure, runs[i].currentStats,
                                 runs'[i].currentStats)
                   /\ simStats' = Some(runs'[i].currentStats)
             /\ runs'[i].reports = runs[i].reports + 1 =>
                   /\ finalReport' # NULL
                   /\ C21_ReportOf(runs[i].closure, runs'[i].currentStats,
                                   finalReport'[1])]_vars

\* a run in flight whose configuration the user has since changed
C21_Witness ==
    /\ Len(runs) = 1
    /\ runs[1].interval
    /\ runs[1].day >= 1
    /\ step = 3
    /\ runs[1].closure # Render
    /\ runs[1].closure.dayUsagePercent # dayUsagePercent

InRange(kwh, dup, pc, bu) ==
    /\ kwh >= 200 /\ kwh <= 3000
    /\ dup >= 10 /\ dup <= 90
    /\ pc >= 6 /\ pc <= 40
    /\ bu >= 1 /\ bu <= 6

\* C22: the inputs are in range when the engine runs: at every start of
\* runSimulation monthly usage is in [200, 3000], day-usage percent in
\* [10, 90], panel count in [6, 40] and battery units in [1, 6], and every
\* tick computes with a panel count, day-usage percent and battery units in
\* those ranges.
C22_InputsInRange ==
    [][/\ Len(runs') = Len(runs) + 1 =>
             InRange(audit'.monthlyKwh, dayUsagePercent', panelCount',
                     batteryUnits')
       /\ \A i \in 1..Len(runs) :
             runs'[i].day = runs[i].day + 1 =>
                 InRange(200, runs[i].closure.dayUsagePercent,
                         runs[i].closure.panelCount,
                         runs[i].closure.batteryUnits)]_vars

(***************************************************************************)
(* Relations between the bills of one configuration and of its neighbours  *)
(***************************************************************************)
\* C23: for every configuration the report's bills satisfy
\* 0 <= newBill <= oldBill, so monthlySavings is never negative.
C23_SavingsNonNegative ==
    formula # NULL =>
        /\ NewBill(formula[1]) >= 0
        /\ NewBill(formula[1]) <= OldBill(formula[1])
        /\ OldBill(formula[1]) - NewBill(formula[1]) >= 0

\* no solar at all: the new bill is the old bill
C23_Witness ==
    /\ formula # NULL
    /\ panelCount = 0
    /\ NewBill(formula[1]) = OldBill(formula[1])
    /\ NewBill(formula[1]) > 0

WithoutBattery == computeFormula([Render EXCEPT !.hasBattery = FALSE])

\* C24: adding a battery never makes the bill worse: for every in-range
\* configuration with a battery of 1..6 units, monthlyTnbCost is at most the
\* monthlyTnbCost of the same configuration without battery.
C24_BatteryNeverWorse ==
    (formula # NULL /\ hasBattery /\ panelCount >= 6) =>
        formula[1].monthlyTnbCost <= WithoutBattery.monthlyTnbCost

\* C25: computeFormula returns dailyTnbKwh >= 0, dailyExportKwh >= 0 and
\* 0 <= dailyStoredKwh <= battery capacity; stored + exported is the whole
\* excess max(0, solarDaily - dayDaily); without battery nothing is stored.
C25_ExcessAccounted ==
    formula # NULL =>
        /\ formula[1].dailyTnbKwh >= 0
        /\ formula[1].dailyExportKwh >= 0
        /\ formula[1].dailyStoredKwh >= 0
        /\ hasBattery => formula[1].dailyStoredKwh <= Capacity
        /\ ~hasBattery => formula[1].dailyStoredKwh = 0
        /\ formula[1].dailyStoredKwh + formula[1].dailyExportKwh
              = Max(0, SolarDaily - DayDaily)

\* a battery filled, the rest exported
C25_Witness ==
    /\ formula # NULL
    /\ hasBattery
    /\ Excess > Capacity
    /\ formula[1].dailyStoredKwh = Capacity
    /\ formula[1].dailyExportKwh > 0
    /\ formula[1].dailyTnbKwh > 0

\* C26: energy conservation in the final report: totalUsed is non-negative
\* and totalUsed + totalExported never exceeds totalGenerated.
C26_EnergyConserved ==
    finalReport # NULL =>
        /\ finalReport[1].totalUsed >= 0
        /\ finalReport[1].totalUsed + finalReport[1].totalExported
              <= finalReport[1].totalGenerated

\* C27: whenever the wizard is on the report step, finalReport is non-null.
C27_ReportHasData == step = 5 => finalReport # NULL

\* the largest panel quantity the input accepts
PanelCountMax == 40

FormulaWith(d) == computeFormula([Render EXCEPT !.panelCount = d])

MonthlyCostWith(d) == FormulaWith(d).monthlyTnbCost

\* C28: more panels never raise the bill: for every usage, day split, panel
\* wattage and battery setting monthlyTnbCost does not increase from d to
\* d + 1 panels, for every d in 0..39; the computed configuration lies on
\* that curve.
C28_MorePanelsNeverRaise ==
    formula # NULL =>
        /\ formula[1].monthlyTnbCost = MonthlyCostWith(panelCount)
        /\ \A d \in 0..(PanelCountMax - 1) :
              MonthlyCostWith(d + 1) <= MonthlyCostWith(d)

\* the boundary is crossed: with fewer panels the configuration is Case A,
\* the computed one is Case B, and the bill fell strictly
C28_Witness ==
    /\ formula # NULL
    /\ ~CaseA(formula[1].B1, formula[1].G)
    /\ \E d \in 0..(panelCount - 1) :
          /\ CaseA(FormulaWith(d).B1, FormulaWith(d).G)
          /\ MonthlyCostWith(d) > formula[1].monthlyTnbCost
    /\ formula[1].monthlyTnbCost > 0

(***************************************************************************)
(* The older tiered variant (part_000): tariff in both directions.         *)
(* Amounts are exact fractions [n, d] in lowest terms: kWh, and bills in   *)
(* 1/1000 RM, so that a rate is the integer of TARIFF_TIERS.               *)
(***************************************************************************)
Abs(a) == IF a < 0 THEN -a ELSE a

RECURSIVE GCD(_, _)
GCD(a, b) == IF b = 0 THEN a ELSE GCD(b, a % b)

\* the fraction n / d, d > 0, in lowest terms
Rat(n, d) ==
    LET g == GCD(Abs(n), d)
    IN [n |-> n \div g, d |-> d \div g]

Whole(k) == Rat(k, 1)

RAdd(x, y) == Rat(x.n * y.d + y.n * x.d, x.d * y.d)

RSub(x, y) == Rat(x.n * y.d - y.n * x.d, x.d * y.d)

RTimes(x, m) == Rat(x.n * m, x.d)

ROver(x, m) == Rat(x.n, x.d * m)

RLeq(x, y) == x.n * y.d <= y.n * x.d

RMin(x, y) == IF RLeq(x, y) THEN x ELSE y

\* Math.min(remaining, tier.limit)
TieredAmountInTier(remaining, limit) ==
    IF limit = Infinity THEN remaining ELSE RMin(remaining, Whole(limit))

RECURSIVE TieredTierLoop(_, _, _)
\* the for-loop of calculateKwhToBill from tier i on
TieredTierLoop(i, remaining, totalBill) ==
    IF i > Len(TARIFF_TIERS)
    THEN [totalBill |-> totalBill, remaining |-> remaining]
    ELSE LET tier == TARIFF_TIERS[i]
             amountInTier == TieredAmountInTier(remaining, tier.limit)
             bill1 == IF amountInTier.n > 0
                      THEN RAdd(totalBill, RTimes(amountInTier, tier.rate))
                      ELSE totalBill
             rem1  == IF amountInTier.n > 0
                      THEN RSub(remaining, amountInTier)
                      ELSE remaining
         IN IF rem1.n <= 0
            THEN [totalBill |-> bill1, remaining |-> rem1]
            ELSE TieredTierLoop(i + 1, rem1, bill1)

\* calculateKwhToBill of the tiered variant, on fractions
tieredKwhToBill(kwh) == TieredTierLoop(1, kwh, Whole(0)).totalBill

\* mutant: the cost of a passed tier stays in the remaining bill
RemainingBillKept(remainingBill, tierCost) == remainingBill

\* remainingBill -= tierCost
RemainingBill(remainingBill, tierCost) == RSub(remainingBill, tierCost)

RECURSIVE BillLoop(_, _, _)
\* the for-loop of calculateBillToKwh from tier i on; tier.limit * tier.rate
\* is Infinity in the last tier, which every remaining bill is below
BillLoop(i, remainingBill, totalKwh) ==
    IF i > Len(TARIFF_TIERS)
    THEN [totalKwh |-> totalKwh, remainingBill |-> remainingBill]
    ELSE LET tier == TARIFF_TIERS[i]
             tierCost == Whole(tier.limit * tier.rate)
         IN IF tier.limit = Infinity \/ RLeq(remainingBill, tierCost)
            THEN [totalKwh |-> RAdd(totalKwh, ROver(remainingBill, tier.rate)),
                  remainingBill |-> Whole(0)]
            ELSE BillLoop(i + 1, RemainingBill(remainingBill, tierCost),
                          RAdd(totalKwh, Whole(tier.limit)))

calculateBillToKwh(billAmount) ==
    LET r == BillLoop(1, billAmount, Whole(0))
    IN IF r.remainingBill.n > 0
       THEN RAdd(r.totalKwh,
                 ROver(r.remainingBill, TARIFF_TIERS[Len(TARIFF_TIERS)].rate))
       ELSE r.totalKwh

(***************************************************************************)
(* SpecInverse: the two tariff helpers applied one after the other         *)
(***************************************************************************)
MaxInverseKwh == 1200

InverseKwhStep == 25

MaxInverseBill == 1500

InverseBillStep == 10

\* the tier boundaries, in kWh
TierBoundaries == {200, 300, 600, 900}

\* tenths of a kWh: a grid, and the tenths around every tier boundary
InverseKwhInputs ==
    {k \in 0..(MaxInverseKwh * 10) :
        \/ k % (InverseKwhStep * 10) = 0
        \/ \E b \in TierBoundaries : k \in (b * 10 - 1)..(b * 10 + 1)}

\* 1/1000 RM: the positions of the bill slider and below, and the bills
\* around every tier boundary
InverseBillInputs ==
    {b * 1000 : b \in {x \in 0..MaxInverseBill : x % InverseBillStep = 0}}
        \cup UNION {LET at == tieredKwhToBill(Whole(b)).n
                    IN {at - 10, at, at + 10} : b \in TierBoundaries}

InitInverse ==
    /\ InitWizard
    /\ InitConfig
    /\ formula = NULL
    /\ tariffCalls = <<>>
    /\ tiered = NULL
    /\ inverse = NULL

\* calculateBillToKwh(calculateKwhToBill(kwh)), kwh in tenths
KwhRoundTrip(kwh) ==
    LET input == Rat(kwh, 10)
        there == tieredKwhToBill(input)
    IN /\ inverse' = Some([from |-> "kwh", input |-> input, there |-> there,
                           back |-> calculateBillToKwh(there)])
       /\ UNCHANGED <<wizardVars, configVars, formula, tariffCalls, tiered>>

\* calculateKwhToBill(calculateBillToKwh(bill)), bill in 1/1000 RM
BillRoundTrip(bill) ==
    LET input == Whole(bill)
        there == calculateBillToKwh(input)
    IN /\ inverse' = Some([from |-> "bill", input |-> input, there |-> there,
                           back |-> tieredKwhToBill(there)])
       /\ UNCHANGED <<wizardVars, configVars, formula, tariffCalls, tiered>>

NextInverse ==
    \/ \E kwh \in InverseKwhInputs : KwhRoundTrip(kwh)
    \/ \E bill \in InverseBillInputs : BillRoundTrip(bill)

SpecInverse == InitInverse /\ [][NextInverse]_vars

\* C30: in the tiered variant calculateBillToKwh is the inverse of
\* calculateKwhToBill: converting a kWh amount to its bill and back, or a
\* bill to its kWh and back, returns the amount started from, the tier
\* boundaries 200, 300, 600 and 900 kWh included.
C30_Inverse ==
    inverse # NULL => inverse[1].back = inverse[1].input

\* the default bill of RM 450: its kWh is no whole number, in the top tier
C30_Witness ==
    /\ inverse # NULL
    /\ inverse[1].from = "bill"
    /\ inverse[1].input = Whole(450000)
    /\ inverse[1].there.d > 1
    /\ RLeq(Whole(900), inverse[1].there)
    /\ inverse[1].back = inverse[1].input

(***************************************************************************)
(* The older tiered variant (part_000): the simulation.  Energy in         *)
(* 1/TieredUnit kWh, simProgress in thirds of a percent, tankLevel in      *)
(* sixtieths of a percent, money as fractions of 1/1000 RM.                *)
(***************************************************************************)
TieredUnit == 4 * 5

\* load per use, in 1/TieredUnit kWh: 1.5, 0.8 and 1.2 kWh
APPLIANCES == [ac |-> 30, wm |-> 16, dw |-> 24]

\* apps.forEach(appId => load += APPLIANCES.find(a => a.id === appId).load)
AppsLoad(apps) ==
    (IF "ac" \in apps THEN APPLIANCES.ac ELSE 0)
      + (IF "wm" \in apps THEN APPLIANCES.wm ELSE 0)
      + (IF "dw" \in apps THEN APPLIANCES.dw ELSE 0)

\* Math.ceil of the positive quotient n / d
Ceil(n, d) == (n + d - 1) \div d

\* Math.min(15, Math.max(3, Math.ceil((currentKwhUsage / 30 * 0.9) / 3.5)))
recommendedSystemSize(currentBill) ==
    LET kwh == calculateBillToKwh(Whole(currentBill * 1000))
    IN Min(15, Max(3, Ceil(kwh.n * 9 * 10,
                           kwh.d * 30 * 10 * SOLAR_YIELD_PER_KW)))

\* what the interval callback of one render reads
TieredClosure(t) ==
    [audit |-> t.audit, schedule |-> t.schedule, hasBattery |-> t.hasBattery,
     batterySize |-> t.batterySize,
     recommendedSystemSize |-> recommendedSystemSize(t.audit.currentBill)]

RECURSIVE LoadInWindow(_, _, _)
\* the for-loop of calculateLoadInWindow from hour i on
LoadInWindow(schedule, i, end) ==
    IF i > end THEN 0
    ELSE (IF i \in DOMAIN schedule THEN AppsLoad(schedule[i]) ELSE 0)
           + TieredUnit \div 5
           + LoadInWindow(schedule, i + 1, end)

calculateLoadInWindow(schedule, start, end) == LoadInWindow(schedule, start, end)

RECURSIVE ScheduledLoad(_, _)
\* Object.entries(schedule).forEach(...) over the hours in hours
ScheduledLoad(schedule, hours) ==
    IF hours = {} THEN 0
    ELSE LET hour == CHOOSE h \in hours : TRUE
         IN AppsLoad(schedule[hour]) + ScheduledLoad(schedule, hours \ {hour})

dailyBaseLoad(c) ==
    (5 + (IF c.audit.futurePond THEN 4 ELSE 0)
       + (IF c.audit.futurePool THEN 6 ELSE 0)) * TieredUnit

dailyActiveLoad(c) ==
    ScheduledLoad(c.schedule, DOMAIN c.schedule)
      + (IF c.audit.futureEV THEN 12 * TieredUnit ELSE 0)

\* mutant: the direct use is not capped by the generation
SolarUsedDirectlyUncapped(dailySolar, sunWindowConsumption, baseLoad) ==
    sunWindowConsumption + (baseLoad * 4) \div 10

\* Math.min(dailySolar, sunWindowConsumption + (dailyBaseLoad * 0.4))
SolarUsedDirectly(dailySolar, sunWindowConsumption, baseLoad) ==
    Min(dailySolar, sunWindowConsumption + (baseLoad * 4) \div 10)

\* the locals of one tick of the interval callback
DailyBalance(c) ==
    LET dailySolar == (c.recommendedSystemSize * SOLAR_YIELD_PER_KW
                         * TieredUnit) \div 10
        baseLoad == dailyBaseLoad(c)
        totalDailyConsumption == baseLoad + dailyActiveLoad(c)
        sunWindowConsumption == calculateLoadInWindow(c.schedule, 11, 15)
        solarUsedDirectly ==
            SolarUsedDirectly(dailySolar, sunWindowConsumption, baseLoad)
        excessSolar == Max(0, dailySolar - solarUsedDirectly)
        toBattery ==
            IF c.hasBattery THEN Min(excessSolar, c.batterySize * TieredUnit)
            ELSE 0
        exported == excessSolar - toBattery
        remainingLoad == Max(0, totalDailyConsumption - solarUsedDirectly)
        fromBattery == IF c.hasBattery THEN Min(remainingLoad, toBattery) ELSE 0
        imported == Max(0, remainingLoad - fromBattery)
    IN [dailySolar |-> dailySolar,
        totalDailyConsumption |-> totalDailyConsumption,
        sunWindowConsumption |-> sunWindowConsumption,
        solarUsedDirectly |-> solarUsedDirectly,
        toBattery |-> toBattery,
        exported |-> exported,
        remainingLoad |-> remainingLoad,
        fromBattery |-> fromBattery,
        imported |-> imported]

\* currentStats after one more tick; every daily figure is an even number
\* of 1/TieredUnit kWh, so its half is whole
TieredAccumulate(c, stats, b) ==
    [solarGenerated |-> stats.solarGenerated + b.dailySolar \div 2,
     houseConsumed  |-> stats.houseConsumed + b.totalDailyConsumption \div 2,
     gridExport     |-> stats.gridExport + b.exported \div 2,
     gridImport     |-> stats.gridImport + b.imported \div 2,
     tankLevel      |-> IF c.hasBattery
                        THEN (b.toBattery * 300) \div c.batterySize
                        ELSE 0,
     wastedMoney    |-> stats.wastedMoney]

\* the report calculateFinalReport(stats) sets in the tiered variant
tieredFinalReport(c, stats) ==
    LET oldBill == Whole(c.audit.currentBill * 1000)
        importCost == tieredKwhToBill(Rat(stats.gridImport, TieredUnit))
        exportCredit ==
            Rat(stats.gridExport * NEM_EXPORT_RATE * 10, TieredUnit)
        newBill == IF RLeq(importCost, exportCredit) THEN Whole(0)
                   ELSE RSub(importCost, exportCredit)
        potentialValueIfUsed ==
            Rat(stats.gridExport * AVG_GRID_RATE * 10, TieredUnit)
    IN [ oldBill        |-> oldBill,
         newBill        |-> newBill,
         monthlySavings |-> RSub(oldBill, newBill),
         totalGenerated |-> stats.solarGenerated,
         totalUsed      |-> stats.houseConsumed - stats.gridImport,
         totalExported  |-> stats.gridExport,
         lossAmount     |-> RSub(potentialValueIfUsed, exportCredit) ]

\* useState of simStats
TieredZeroStats ==
    [tankLevel |-> 0, gridExport |-> 0, gridImport |-> 0,
     solarGenerated |-> 0, houseConsumed |-> 0]

\* let currentStats = {...} of runSimulation
TieredCurrentStats ==
    [tankLevel |-> 0, gridExport |-> 0, gridImport |-> 0,
     solarGenerated |-> 0, houseConsumed |-> 0, wastedMoney |-> 0]

(***************************************************************************)
(* SpecTiered: the tiered variant from its strategy step, through the      *)
(* simulation, to the report, from bounded audits and schedules            *)
(***************************************************************************)
NumTieredBills == 2

NumTieredBatterySizes == 2

TieredBillOrder == <<100, 450, 1500, 250, 800>>

TieredBatterySizeOrder == <<5, 30, 10, 15, 20, 25>>

TieredBills ==
    {TieredBillOrder[i] : i \in 1..Min(NumTieredBills, Len(TieredBillOrder))}

TieredBatterySizes ==
    {TieredBatterySizeOrder[i] :
        i \in 1..Min(NumTieredBatterySizes, Len(TieredBatterySizeOrder))}

\* hours around the two ends of the 11..15 sun window, and one inside it
ScheduleHours == {10, 11, 13, 15, 16}

\* what one hour of a schedule holds
AppChoices == {{}, {"ac"}, {"ac", "wm", "dw"}}

InitTiered ==
    /\ InitWizard
    /\ InitConfig
    /\ formula = NULL
    /\ tariffCalls = <<>>
    /\ inverse = NULL
    /\ \E currentBill \in TieredBills, futureEV \in BOOLEAN,
          futurePool \in BOOLEAN, futurePond \in BOOLEAN,
          schedule \in [ScheduleHours -> AppChoices],
          battery \in {0} \cup TieredBatterySizes :
          tiered = [step |-> 2,
                    audit |-> [currentBill |-> currentBill,
                               futureEV |-> futureEV,
                               futurePool |-> futurePool,
                               futurePond |-> futurePond],
                    schedule |-> schedule,
                    hasBattery |-> battery # 0,
                    batterySize |-> IF battery = 0 THEN 5 ELSE battery,
                    simProgress |-> 0,
                    simStats |-> TieredZeroStats,
                    finalReport |-> NULL,
                    run |-> NULL,
                    timeouts |-> 0]

tieredUnchanged ==
    UNCHANGED <<wizardVars, configVars, formula, tariffCalls, inverse>>

\* "Run Simulation" of the strategy step
tieredRunSimulation ==
    /\ tiered.step = 2
    /\ tiered.run = NULL
    /\ tiered' = [tiered EXCEPT
                    !.step = 3,
                    !.simProgress = 0,
                    !.run = Some([day |-> 0,
                                  currentStats |-> TieredCurrentStats,
                                  closure |-> TieredClosure(tiered),
                                  interval |-> TRUE,
                                  balance |-> NULL])]
    /\ tieredUnchanged

\* one call of the setInterval callback; day counts half days
tieredTick ==
    /\ tiered.run # NULL
    /\ tiered.run[1].interval
    /\ LET r == tiered.run[1]
           c == r.closure
           day == r.day + 1
           b == DailyBalance(c)
           stats == TieredAccumulate(c, r.currentStats, b)
           done == day >= totalDays * 2
       IN tiered' = [tiered EXCEPT
                       !.simProgress = day * 5,
                       !.simStats = stats,
                       !.finalReport =
                           IF done THEN Some(tieredFinalReport(c, stats))
                           ELSE @,
                       !.timeouts = IF done THEN @ + 1 ELSE @,
                       !.run = Some([r EXCEPT !.day = day,
                                               !.currentStats = stats,
                                               !.interval = ~done,
                                               !.balance = Some(b)])]
    /\ tieredUnchanged

\* setTimeout(() => setStep(4), 1000)
tieredTimeoutFire ==
    /\ tiered.timeouts > 0
    /\ tiered' = [tiered EXCEPT !.step = 4, !.timeouts = @ - 1]
    /\ tieredUnchanged

NextTiered ==
    \/ tieredRunSimulation
    \/ tieredTick
    \/ tieredTimeoutFire

SpecTiered == InitTiered /\ [][NextTiered]_vars

\* C29: in the tiered variant every tick's daily energy balance closes:
\* solarUsedDirectly + toBattery + exported = dailySolar,
\* toBattery <= batterySize, fromBattery <= toBattery, imported >= 0 and
\* solarUsedDirectly + fromBattery + imported = totalDailyConsumption, for
\* every schedule, flag and battery setting.
C29_DailyBalance ==
    (tiered # NULL /\ tiered.run # NULL /\ tiered.run[1].balance # NULL) =>
        LET b == tiered.run[1].balance[1]
        IN /\ b.solarUsedDirectly + b.toBattery + b.exported = b.dailySolar
           /\ b.toBattery <= tiered.run[1].closure.batterySize * TieredUnit
           /\ b.fromBattery <= b.toBattery
           /\ b.imported >= 0
           /\ b.solarUsedDirectly + b.fromBattery + b.imported
                 = b.totalDailyConsumption

\* a tick with a battery that is filled, an export and an import
C29_Witness ==
    /\ tiered # NULL
    /\ tiered.run # NULL
    /\ tiered.run[1].balance # NULL
    /\ tiered.hasBattery
    /\ LET b == tiered.run[1].balance[1]
       IN /\ b.toBattery = tiered.batterySize * TieredUnit
          /\ b.exported > 0
          /\ b.fromBattery = b.toBattery
          /\ b.imported > 0

====
